---------------------------- MODULE Spec2Model ----------------------------
(***************************************************************************)
(* A model of glogs_wordcloud.py: the payload extractor (get_logs), the    *)
(* text normalizer (clean_text), the two frequency analyzers and main.     *)
(*                                                                         *)
(* A text is a sequence of characters, each character a one-element        *)
(* string; "U+0130" and "U+0307" stand for the code points LATIN CAPITAL   *)
(* LETTER I WITH DOT ABOVE and COMBINING DOT ABOVE.  A Python value is a   *)
(* record [t |-> its type, s |-> its text]: the content of a str, and the  *)
(* str() representation of anything else.  A frequency table (Counter) is  *)
(* a function from keys (texts) to positive counts.                        *)
(***************************************************************************)
EXTENDS Integers, Sequences, FiniteSets, TLC

VARIABLES
    caller,          \* "main": the script's main(); "direct": an analyzer called as a function
    pc,              \* the position of the run
    batch,           \* the raw entries the log source returns (list_entries)
    e,               \* how many entries the loop of get_logs has consumed
    log_messages,    \* get_logs's log_messages, then the analyzer's argument
    analyze_phrases, \* main's analyze_phrases
    ngram_size,      \* main's ngram_size
    n,               \* analyze_phrase_frequency's n
    stop_words,      \* the analyzer's stop_words
    i,               \* how many messages the analyzer's loop has processed
    counts,          \* word_counts / phrase_counts
    analyzer_calls,  \* how many times an analyzer was entered
    analyzer_returns,\* how many times an analyzer returned its table
    rendered,        \* how many times generate_wordcloud was invoked
    render_arg,      \* the table generate_wordcloud was last invoked with
    reported_empty,  \* "No log entries found." was printed
    error            \* the exception the run ended with, "none" if none

vars == <<caller, pc, batch, e, log_messages, analyze_phrases, ngram_size, n,
          stop_words, i, counts, analyzer_calls, analyzer_returns, rendered,
          render_arg, reported_empty, error>>

-----------------------------------------------------------------------------
(* Bounds of the model *)

\* the entries of a batch in main's runs
MaxEntries == 2
\* the size of a batch in the analyzers' direct runs: its raw words plus its message breaks
MaxBatchSize == 4
\* the largest n-gram size tried
MaxN == 2

-----------------------------------------------------------------------------
(* Characters *)

UpperLetters == {"E", "U+0130"}
LowerLetters == {"c", "d", "e", "h", "i", "k", "o", "r", "t"}
Digits == {"1", "2", "4", "5", "7"}
Whitespace == {" "}

\* \w of a str pattern: alphanumeric characters and the underscore (U+0307, a
\* combining mark, is neither)
IsWordChar(c) == c \in UpperLetters \cup LowerLetters \cup Digits \cup {"_"}
\* \s
IsSpace(c) == c \in Whitespace
\* \d
IsDigit(c) == c \in Digits

\* str.lower() of one character: U+0130 lowers to "i" followed by U+0307
LowerChar(c) ==
    CASE c = "E" -> <<"e">>
      [] c = "U+0130" -> <<"i", "U+0307">>
      [] OTHER -> <<c>>

RECURSIVE Lower(_)
Lower(text) ==
    IF text = <<>> THEN <<>> ELSE LowerChar(Head(text)) \o Lower(Tail(text))

RemoveNonWord(text) == SelectSeq(text, LAMBDA c : IsWordChar(c) \/ IsSpace(c))

RemoveDigits(text) == SelectSeq(text, LAMBDA c : ~IsDigit(c))

clean_text(text) == RemoveDigits(Lower(RemoveNonWord(text)))

\* str.split(): the maximal runs of non-whitespace characters, in order
RECURSIVE SplitFrom(_, _, _)
SplitFrom(text, cur, out) ==
    IF text = <<>>
    THEN IF cur = <<>> THEN out ELSE Append(out, cur)
    ELSE IF IsSpace(Head(text))
         THEN SplitFrom(Tail(text), <<>>, IF cur = <<>> THEN out ELSE Append(out, cur))
         ELSE SplitFrom(Tail(text), Append(cur, Head(text)), out)

Split(text) == SplitFrom(text, <<>>, <<>>)

\* " ".join(words)
RECURSIVE Join(_)
Join(words) ==
    IF words = <<>> THEN <<>>
    ELSE IF Len(words) = 1 THEN words[1]
    ELSE words[1] \o <<" ">> \o Join(Tail(words))

-----------------------------------------------------------------------------
(* Python values and raw entries *)

PyStr(text) == [t |-> "str", s |-> text]
\* a value that is no str: s is what str() gives for it
PyOther(type, text) == [t |-> type, s |-> text]

\* an entry whose payload is a str
StrPayload(text) ==
    [kind |-> "str", text |-> text, has_message |-> FALSE,
     message |-> PyStr(<<>>), raises |-> FALSE]
\* an entry whose payload is a dict with a 'message' field
DictWithMessage(value, repr) ==
    [kind |-> "dict", text |-> repr, has_message |-> TRUE,
     message |-> value, raises |-> FALSE]
\* an entry whose payload is a dict without a 'message' field
DictWithoutMessage(repr) ==
    [kind |-> "dict", text |-> repr, has_message |-> FALSE,
     message |-> PyStr(<<>>), raises |-> FALSE]
\* an entry whose payload is of another type; raises: str() of it raises
OtherPayload(repr, raises) ==
    [kind |-> "other", text |-> repr, has_message |-> FALSE,
     message |-> PyStr(<<>>), raises |-> raises]

\* str(entry.payload): the representation, or an exception
StrOf(entry) ==
    IF entry.raises
    THEN [ok |-> FALSE, val |-> PyStr(<<>>)]
    ELSE [ok |-> TRUE, val |-> PyStr(entry.text)]

\* the value one entry appends to log_messages, or the exception it raises
ExtractEntry(entry) ==
    IF entry.kind = "str"
    THEN [ok |-> TRUE, val |-> PyStr(entry.text)]
    ELSE IF entry.kind = "dict"
         THEN IF entry.has_message
              THEN [ok |-> TRUE, val |-> entry.message]
              ELSE StrOf(entry)
         ELSE StrOf(entry)

\* a slip: the failed entry leaves an empty string in the list
OnEntryErrorPlaceholder(msgs) == Append(msgs, PyStr(<<>>))

\* the except clause of the loop: the entry is skipped
OnEntryError(msgs) == msgs

\* one iteration of the loop of get_logs
GetLogsIteration(msgs, entry) ==
    LET r == ExtractEntry(entry)
    IN  IF r.ok THEN Append(msgs, r.val) ELSE OnEntryError(msgs)

-----------------------------------------------------------------------------
(* Frequency tables *)

\* Counter()
EmptyCounter == [k \in {} |-> 0]

\* the count of a key, 0 when the table has no entry for it
Count(c, key) == IF key \in DOMAIN c THEN c[key] ELSE 0

\* a slip: a key is recorded, not counted
IncrOnce(c, key) == IF key \in DOMAIN c THEN c ELSE c @@ (key :> 1)

\* Counter's count of one more element
Incr(c, key) ==
    IF key \in DOMAIN c THEN [c EXCEPT ![key] = @ + 1] ELSE c @@ (key :> 1)

\* Counter.update(keys): one more for each element of the list
RECURSIVE CounterUpdate(_, _)
CounterUpdate(c, keys) ==
    IF keys = <<>> THEN c ELSE CounterUpdate(Incr(c, Head(keys)), Tail(keys))

-----------------------------------------------------------------------------
(* The analyzers *)

\* the default of analyze_phrase_frequency's n
DefaultN == 2

\* a slip: words of two characters are kept
KeepWordFromTwo(word, stop) == word \notin stop /\ Len(word) >= 2

\* the filter of the list comprehension
KeepWord(word, stop) == word \notin stop /\ Len(word) > 2

\* the filtered words of one message
MessageWords(text, stop) ==
    SelectSeq(Split(clean_text(text)), LAMBDA w : KeepWord(w, stop))

\* a slip: words[k + 1:]
SuffixOffByOne(words, k) ==
    IF k + 1 >= Len(words) THEN <<>> ELSE SubSeq(words, k + 2, Len(words))

\* words[k:]
Suffix(words, k) ==
    IF k >= Len(words) THEN <<>> ELSE SubSeq(words, k + 1, Len(words))

\* a slip: range(1, k + 1)
RangeFromOne(k) == [j \in 1..k |-> j]

\* range(k), in order
Range(k) == [j \in 1..k |-> j - 1]

\* the number of tuples zip(*lists) yields: that of the shortest list, 0 of no list
ZipLen(lists) ==
    IF lists = <<>> THEN 0
    ELSE CHOOSE m \in {Len(lists[k]) : k \in DOMAIN lists} :
             \A k \in DOMAIN lists : m <= Len(lists[k])

\* zip(*lists)
Zip(lists) ==
    [j \in 1..ZipLen(lists) |-> [k \in DOMAIN lists |-> lists[k][j]]]

\* zip(*[words[i:] for i in range(k)]), each tuple joined with " "
Phrases(words, k) ==
    LET r == Range(k)
        slices == [x \in DOMAIN r |-> Suffix(words, r[x])]
        tuples == Zip(slices)
    IN  [j \in DOMAIN tuples |-> Join(tuples[j])]

\* the body of analyze_word_frequency's loop
WordStep(c, text, stop) == CounterUpdate(c, MessageWords(text, stop))

\* the body of analyze_phrase_frequency's loop
PhraseStep(c, text, k, stop) ==
    CounterUpdate(c, Phrases(MessageWords(text, stop), k))

\* analyze_word_frequency on a list of str
RECURSIVE WordFold(_, _, _)
WordFold(c, msgs, stop) ==
    IF msgs = <<>> THEN c
    ELSE WordFold(WordStep(c, Head(msgs).s, stop), Tail(msgs), stop)

analyze_word_frequency(msgs, stop) == WordFold(EmptyCounter, msgs, stop)

\* analyze_phrase_frequency on a list of str
RECURSIVE PhraseFold(_, _, _, _)
PhraseFold(c, msgs, k, stop) ==
    IF msgs = <<>> THEN c
    ELSE PhraseFold(PhraseStep(c, Head(msgs).s, k, stop), Tail(msgs), k, stop)

analyze_phrase_frequency(msgs, k, stop) == PhraseFold(EmptyCounter, msgs, k, stop)

\* a slip: `if log_messages is None`, which no list is
IsEmptyInputIsNone(msgs) == FALSE

\* `if not log_messages` of main
IsEmptyInput(msgs) == msgs = <<>>

-----------------------------------------------------------------------------
(* The inputs *)

W_Err == <<"E", "r", "r", ":">>
W_d1_k == <<"d", "1", "_", "k">>
W_the == <<"t", "h", "e">>
W_Io == <<"U+0130", "o">>
W_ok == <<"o", "k">>

\* the raw words messages are made of
RawWords == {W_Err, W_d1_k, W_the, W_Io, W_ok}

\* wordcloud's STOPWORDS: its members among the words of the model
STOPWORDS == {W_the}

\* the stop-word sets a caller passes
StopWordSets == {{}, {W_the}}

EndOfMessage == <<"EOM">>

\* the batch a sequence of raw words and message breaks stands for
RECURSIVE Decode(_, _, _)
Decode(enc, cur, out) ==
    IF enc = <<>>
    THEN IF cur = <<>> THEN out ELSE Append(out, PyStr(Join(cur)))
    ELSE IF Head(enc) = EndOfMessage
         THEN Decode(Tail(enc), <<>>, Append(out, PyStr(Join(cur))))
         ELSE Decode(Tail(enc), Append(cur, Head(enc)), out)

SeqsUpTo(S, k) == UNION {[1..m -> S] : m \in 0..k}

\* the lists of messages of the analyzers' direct runs
Batches ==
    {Decode(enc, <<>>, <<>>) : enc \in SeqsUpTo(RawWords \cup {EndOfMessage}, MaxBatchSize)}

\* str({'code': 5})
DictRepr == <<"{", "'", "c", "o", "d", "e", "'", ":", " ", "5", "}">>

\* the entries the log source returns in main's runs
Payloads ==
    { StrPayload(Join(<<W_Err, W_d1_k>>)),
      StrPayload(Join(<<W_the, W_Err, W_Io>>)),
      StrPayload(W_ok),
      DictWithMessage(PyStr(Join(<<W_d1_k, W_Err, W_d1_k>>)), DictRepr),
      DictWithMessage(PyOther("int", <<"4", "2">>), DictRepr),
      DictWithoutMessage(DictRepr),
      OtherPayload(<<"7">>, FALSE),
      OtherPayload(<<>>, TRUE) }

-----------------------------------------------------------------------------
(* main's run *)

Init ==
    /\ caller = "main"
    /\ pc = "main"
    /\ batch \in SeqsUpTo(Payloads, MaxEntries)
    /\ e = 0
    /\ log_messages = <<>>
    /\ analyze_phrases \in BOOLEAN
    /\ ngram_size \in -1..MaxN
    /\ n = DefaultN
    /\ stop_words = {}
    /\ i = 0
    /\ counts = EmptyCounter
    /\ analyzer_calls = 0
    /\ analyzer_returns = 0
    /\ rendered = 0
    /\ render_arg = EmptyCounter
    /\ reported_empty = FALSE
    /\ error = "none"

\* setup_environment: the connection test passes, or raises into main's except
SetupEnvironment ==
    /\ pc = "main"
    /\ \E connected \in BOOLEAN :
          IF connected
          THEN pc' = "get_logs" /\ error' = error
          ELSE pc' = "done" /\ error' = "ConnectionError"
    /\ UNCHANGED <<caller, batch, e, log_messages, analyze_phrases, ngram_size, n,
                   stop_words, i, counts, analyzer_calls, analyzer_returns,
                   rendered, render_arg, reported_empty>>

\* one entry of the loop of get_logs
GetLogsEntry ==
    /\ pc = "get_logs"
    /\ e < Len(batch)
    /\ log_messages' = GetLogsIteration(log_messages, batch[e + 1])
    /\ e' = e + 1
    /\ UNCHANGED <<caller, pc, batch, analyze_phrases, ngram_size, n, stop_words, i,
                   counts, analyzer_calls, analyzer_returns, rendered, render_arg,
                   reported_empty, error>>

\* return log_messages
GetLogsReturn ==
    /\ pc = "get_logs"
    /\ e = Len(batch)
    /\ pc' = "got_logs"
    /\ UNCHANGED <<caller, batch, e, log_messages, analyze_phrases, ngram_size, n,
                   stop_words, i, counts, analyzer_calls, analyzer_returns,
                   rendered, render_arg, reported_empty, error>>

\* main after get_logs: the empty-input report, or the call of an analyzer
MainDispatch ==
    /\ pc = "got_logs"
    /\ IF IsEmptyInput(log_messages)
       THEN /\ reported_empty' = TRUE
            /\ pc' = "done"
            /\ UNCHANGED <<n, stop_words, i, counts, analyzer_calls>>
       ELSE /\ pc' = IF analyze_phrases THEN "phrase_loop" ELSE "word_loop"
            /\ n' = IF analyze_phrases THEN ngram_size ELSE n
            /\ stop_words' = STOPWORDS
            /\ i' = 0
            /\ counts' = EmptyCounter
            /\ analyzer_calls' = analyzer_calls + 1
            /\ UNCHANGED reported_empty
    /\ UNCHANGED <<caller, batch, e, log_messages, analyze_phrases, ngram_size,
                   analyzer_returns, rendered, render_arg, error>>

\* where an exception raised in an analyzer ends: main's except, or the caller
Raised == IF caller = "main" THEN "done" ELSE "raised"

\* one message of analyze_word_frequency's loop; re.sub raises TypeError on a non-str
AnalyzeWordMessage ==
    /\ pc = "word_loop"
    /\ i < Len(log_messages)
    /\ LET m == log_messages[i + 1]
       IN  IF m.t = "str"
           THEN /\ counts' = WordStep(counts, m.s, stop_words)
                /\ i' = i + 1
                /\ UNCHANGED <<pc, error>>
           ELSE /\ pc' = Raised
                /\ error' = "TypeError"
                /\ UNCHANGED <<counts, i>>
    /\ UNCHANGED <<caller, batch, e, log_messages, analyze_phrases, ngram_size, n,
                   stop_words, analyzer_calls, analyzer_returns, rendered,
                   render_arg, reported_empty>>

\* one message of analyze_phrase_frequency's loop
AnalyzePhraseMessage ==
    /\ pc = "phrase_loop"
    /\ i < Len(log_messages)
    /\ LET m == log_messages[i + 1]
       IN  IF m.t = "str"
           THEN /\ counts' = PhraseStep(counts, m.s, n, stop_words)
                /\ i' = i + 1
                /\ UNCHANGED <<pc, error>>
           ELSE /\ pc' = Raised
                /\ error' = "TypeError"
                /\ UNCHANGED <<counts, i>>
    /\ UNCHANGED <<caller, batch, e, log_messages, analyze_phrases, ngram_size, n,
                   stop_words, analyzer_calls, analyzer_returns, rendered,
                   render_arg, reported_empty>>

\* return word_counts / return phrase_counts
AnalyzeReturn ==
    /\ pc \in {"word_loop", "phrase_loop"}
    /\ i = Len(log_messages)
    /\ analyzer_returns' = analyzer_returns + 1
    /\ pc' = IF caller = "main" THEN "render" ELSE "returned"
    /\ UNCHANGED <<caller, batch, e, log_messages, analyze_phrases, ngram_size, n,
                   stop_words, i, counts, analyzer_calls, rendered, render_arg,
                   reported_empty, error>>

\* generate_wordcloud: generate_from_frequencies raises ValueError on an empty table
GenerateWordcloud ==
    /\ pc = "render"
    /\ rendered' = rendered + 1
    /\ render_arg' = counts
    /\ error' = IF DOMAIN counts = {} THEN "ValueError" ELSE error
    /\ pc' = "done"
    /\ UNCHANGED <<caller, batch, e, log_messages, analyze_phrases, ngram_size, n,
                   stop_words, i, counts, analyzer_calls, analyzer_returns,
                   reported_empty>>

Next ==
    \/ SetupEnvironment
    \/ GetLogsEntry
    \/ GetLogsReturn
    \/ MainDispatch
    \/ AnalyzeWordMessage
    \/ AnalyzePhraseMessage
    \/ AnalyzeReturn
    \/ GenerateWordcloud

Spec == Init /\ [][Next]_vars

-----------------------------------------------------------------------------
(* An analyzer called as a function, with any stop-word set and any n *)

InitAnalyze ==
    /\ caller = "direct"
    /\ analyze_phrases \in BOOLEAN
    /\ pc = IF analyze_phrases THEN "phrase_loop" ELSE "word_loop"
    /\ batch = <<>>
    /\ e = 0
    /\ log_messages \in Batches
    /\ n \in IF analyze_phrases THEN 0..MaxN ELSE {DefaultN}
    /\ ngram_size = n
    /\ stop_words \in StopWordSets
    /\ i = 0
    /\ counts = EmptyCounter
    /\ analyzer_calls = 1
    /\ analyzer_returns = 0
    /\ rendered = 0
    /\ render_arg = EmptyCounter
    /\ reported_empty = FALSE
    /\ error = "none"

NextAnalyze ==
    \/ AnalyzeWordMessage
    \/ AnalyzePhraseMessage
    \/ AnalyzeReturn

SpecAnalyze == InitAnalyze /\ [][NextAnalyze]_vars

-----------------------------------------------------------------------------
(* What the claims speak of *)

RECURSIVE SumSeq(_)
SumSeq(q) == IF q = <<>> THEN 0 ELSE Head(q) + SumSeq(Tail(q))

RECURSIVE TableTotal(_)
TableTotal(c) ==
    IF DOMAIN c = {} THEN 0
    ELSE LET k == CHOOSE x \in DOMAIN c : TRUE
         IN  c[k] + TableTotal([y \in DOMAIN c \ {k} |-> c[y]])

Max0(x) == IF x > 0 THEN x ELSE 0

\* the positions of q that hold x
Positions(q, x) == {p \in DOMAIN q : q[p] = x}

\* the messages the analyzer's loop has processed
Processed == SubSeq(log_messages, 1, i)

AllStr(msgs) == \A k \in DOMAIN msgs : msgs[k].t = "str"

\* the normalized word sequence of a message
NormalizedWords(m) == Split(clean_text(m.s))

\* the filtered word sequence of a message
FilteredWords(m) ==
    SelectSeq(NormalizedWords(m), LAMBDA w : Len(w) > 2 /\ w \notin stop_words)

\* the windows of k consecutive words of W, joined with single spaces
Windows(W, k) ==
    [j \in 1..Max0(Len(W) - k + 1) |-> Join(SubSeq(W, j, j + k - 1))]

InWordMode == ~analyze_phrases /\ pc \in {"word_loop", "returned"}
InPhraseMode == analyze_phrases /\ pc \in {"phrase_loop", "returned"}

\* C1: in word mode the count of a word that passes the filter is the number of
\* positions, summed over the messages processed, at which it occurs in the
\* message's normalized word sequence; a word that fails the filter has no entry.
C1_WordCounts ==
    InWordMode =>
        LET done == Processed
            norm == [k \in DOMAIN done |-> NormalizedWords(done[k])]
            words == UNION {{norm[k][p] : p \in DOMAIN norm[k]} : k \in DOMAIN done}
        IN  \A w \in words \cup DOMAIN counts :
                IF Len(w) > 2 /\ w \notin stop_words
                THEN /\ w \in words
                     /\ w \in DOMAIN counts
                     /\ counts[w] = SumSeq([k \in DOMAIN done |->
                                               Cardinality(Positions(norm[k], w))])
                ELSE w \notin DOMAIN counts

\* C1's case: a returned table of two messages or more, with a word counted
\* twice for one message and a word that failed the filter
C1_Witness ==
    /\ InWordMode /\ pc = "returned"
    /\ Len(log_messages) >= 2
    /\ \E k \in DOMAIN log_messages : \E w \in DOMAIN counts :
           Cardinality(Positions(NormalizedWords(log_messages[k]), w)) >= 2
    /\ \E k \in DOMAIN log_messages :
           Len(FilteredWords(log_messages[k])) < Len(NormalizedWords(log_messages[k]))

\* C2: in phrase mode with n >= 1 each message adds exactly its max(0, L - n + 1)
\* windows over the filtered sequence, one count each, and no error is raised:
\* the table is the tally of those windows and its total is the sum of max(0, L - n + 1).
C2_PhraseWindows ==
    (InPhraseMode /\ n >= 1) =>
        LET done == Processed
            W == [k \in DOMAIN done |-> FilteredWords(done[k])]
            win == [k \in DOMAIN done |-> Windows(W[k], n)]
            keys == UNION {{win[k][p] : p \in DOMAIN win[k]} : k \in DOMAIN done}
        IN  /\ error = "none"
            /\ DOMAIN counts = keys
            /\ \A key \in keys :
                   counts[key] = SumSeq([k \in DOMAIN done |->
                                            Cardinality(Positions(win[k], key))])
            /\ TableTotal(counts) = SumSeq([k \in DOMAIN done |->
                                              Max0(Len(W[k]) - n + 1)])

\* C2's case: a returned table of a message with n words or more, which adds
\* its windows, and of a message with words, but fewer than n, which adds none
C2_Witness ==
    /\ InPhraseMode /\ pc = "returned" /\ n >= 2
    /\ \E k \in DOMAIN log_messages : Len(FilteredWords(log_messages[k])) >= n
    /\ \E k \in DOMAIN log_messages :
           /\ Len(FilteredWords(log_messages[k])) >= 1
           /\ Len(FilteredWords(log_messages[k])) < n
    /\ TableTotal(counts) >= 1

\* C3 as claimed: phrase mode with ngram_size < 1 ends in a ConfigurationError
\* before any message is processed, and no table is returned or rendered.
C3_ConfigurationError ==
    (caller = "main" /\ analyze_phrases /\ ngram_size < 1 /\ analyzer_calls > 0) =>
        /\ i = 0
        /\ analyzer_returns = 0
        /\ rendered = 0
        /\ (pc = "done" => error = "ConfigurationError")

\* C4: phrase mode with n = 1 returns the table word mode returns on the same inputs.
C4_UnigramsAreWords ==
    (InPhraseMode /\ pc = "returned" /\ n = 1) =>
        counts = analyze_word_frequency(log_messages, stop_words)

\* C4's case: a returned table of unigrams with a repeated word
C4_Witness ==
    /\ InPhraseMode /\ pc = "returned" /\ n = 1
    /\ Len(log_messages) >= 2
    /\ \E w \in DOMAIN counts : counts[w] >= 2

\* the analyzer of the run, as a function of the list of messages
Analyze(msgs) ==
    IF analyze_phrases
    THEN analyze_phrase_frequency(msgs, n, stop_words)
    ELSE analyze_word_frequency(msgs, stop_words)

\* two tables summed key by key
Merge(a, b) == [k \in DOMAIN a \cup DOMAIN b |-> Count(a, k) + Count(b, k)]

\* C5: for either mode, the messages taken in any order and cut into two parts
\* at any place, the two parts' tables summed key by key are the table of the
\* whole list; with an empty part, a permuted list gives the same table.
C5_OrderIndependent ==
    (caller = "direct" /\ pc = "returned") =>
        LET len == Len(log_messages)
        IN  \A perm \in Permutations(1..len) : \A cut \in 0..len :
                LET shuffled == [k \in 1..len |-> log_messages[perm[k]]]
                IN  Merge(Analyze(SubSeq(shuffled, 1, cut)),
                          Analyze(SubSeq(shuffled, cut + 1, len))) = counts

\* C5's case: a returned table with a key counted in two messages
C5_Witness ==
    /\ caller = "direct" /\ pc = "returned"
    /\ \E a, b \in DOMAIN log_messages :
           /\ a < b
           /\ log_messages[a] # log_messages[b]
           /\ \E key \in DOMAIN counts :
                  /\ key \in DOMAIN Analyze(<<log_messages[a]>>)
                  /\ key \in DOMAIN Analyze(<<log_messages[b]>>)

\* the extraction of an entry raises: str() is called on a payload it fails on
ExtractionFails(entry) ==
    /\ entry.raises
    /\ entry.kind # "str"
    /\ ~(entry.kind = "dict" /\ entry.has_message)

\* the entries get_logs's loop has consumed
Consumed == SubSeq(batch, 1, e)

\* C6: an entry whose extraction raises is skipped and the loop goes on: the
\* messages are those of the other entries, in source order, one per entry
\* that did not fail, and get_logs returns them without raising.
C6_ExtractionResilience ==
    (caller = "main" /\ pc # "main") =>
        LET kept == SelectSeq(Consumed, LAMBDA x : ~ExtractionFails(x))
        IN  /\ Len(log_messages) = e - Cardinality({k \in 1..e : ExtractionFails(batch[k])})
            /\ log_messages = [k \in DOMAIN kept |-> ExtractEntry(kept[k]).val]
            /\ pc = "got_logs" => (e = Len(batch) /\ error = "none")

\* C6's case: get_logs has returned the message of an entry that follows a failed one
C6_Witness ==
    /\ pc = "got_logs"
    /\ Len(batch) = 2
    /\ ExtractionFails(batch[1])
    /\ ~ExtractionFails(batch[2])
    /\ Len(log_messages) = 1

\* C7 as claimed: every element of the list get_logs returns is a string, and
\* the normalizer processes it.
C7_MessagesAreStrings ==
    /\ AllStr(log_messages)
    /\ error # "TypeError"

\* extraction has run to its end
Extracted == caller = "main" /\ pc \notin {"main", "get_logs"} /\ error # "ConnectionError"

\* C8: when extraction yields no message, main reports it and enters no
\* analyzer, builds no table and does not render; the renderer is invoked at
\* most once, and only with the table an analyzer has returned.
C8_EmptyInput ==
    /\ (Extracted /\ log_messages = <<>>) =>
           /\ analyzer_calls = 0
           /\ analyzer_returns = 0
           /\ rendered = 0
           /\ counts = EmptyCounter
           /\ pc \in {"got_logs", "done"}
           /\ (pc = "done" => (reported_empty /\ error = "none"))
    /\ reported_empty => (Extracted /\ log_messages = <<>>)
    /\ rendered <= 1
    /\ pc = "render" => analyzer_returns = 1
    /\ rendered = 1 => (analyzer_returns = 1 /\ render_arg = counts /\ pc = "done")

\* C8's case: every entry of a batch failed, and main has reported the empty input
C8_Witness ==
    /\ pc = "done"
    /\ reported_empty
    /\ batch # <<>>

\* the punctuation and symbol characters of the model: U+0307 is a mark, not one of them
Punctuation == {":", "{", "}", "'", "_"}

\* a token as the data model defines it
IsToken(w) ==
    /\ Len(w) > 2
    /\ w \notin stop_words
    /\ \A p \in DOMAIN w : w[p] \notin UpperLetters \cup Digits \cup Punctuation

\* C9 as claimed: every key of the word-mode table, and every space-separated
\* component of every key of the phrase-mode table, is a token, and a phrase
\* key has exactly n components.
C9_TokenInvariant ==
    (caller = "direct") =>
        \A key \in DOMAIN counts :
            IF analyze_phrases
            THEN /\ Len(Split(key)) = n
                 /\ \A p \in DOMAIN Split(key) : IsToken(Split(key)[p])
            ELSE IsToken(key)

\* C10 as claimed: normalizing the output of clean_text gives the word
\* sequence that normalizing the text once gives.
C10_IdempotentCleaning ==
    (caller = "direct") =>
        \A k \in DOMAIN Processed :
            Split(clean_text(clean_text(Processed[k].s)))
                = Split(clean_text(Processed[k].s))

=============================================================================
